---- MODULE Spec2Model ----
(***************************************************************************)
(* The video player of python/src/video_player.py: playback control, the   *)
(* playlist registry, search and flagging over an in-memory video library. *)
(*                                                                         *)
(* Every command method is an operator on the player object `self` that    *)
(* returns the object after the call together with the lines it printed;   *)
(* one action per command applies it to the current state.                 *)
(*                                                                         *)
(* Strings the code inspects (playlist names, titles, tags, search terms)  *)
(* are sequences of ASCII codes so that str.upper(), `in` and " ".join     *)
(* are computed; strings it only stores and prints (flag reasons, the      *)
(* message templates) are TLA+ strings.                                    *)
(***************************************************************************)
EXTENDS Integers, Sequences, FiniteSets

(* ------------------------------------------------------------------ *)
(* Bounds                                                             *)
(* ------------------------------------------------------------------ *)

\* Number of videos in the library (ids 1..NumVideos).
NumVideos == 3

(* ------------------------------------------------------------------ *)
(* Values                                                             *)
(* ------------------------------------------------------------------ *)

\* Python's None where a Video object is expected (_playing_video, get_video).
None == 0

\* Video.flag_reason: None is the empty tuple, a reason r (possibly "") is <<r>>.
NoReason == << >>

VideoIds == 1..NumVideos

\* An id that is not a key of the library.
UnknownIds == {NumVideos + 1}

AllIds == VideoIds \cup UnknownIds

\* flag_video's flag_reason argument; "" is also its default.
Reasons == {"", "spoiler"}

\* Playlist names the commands are called with: "x", "X", "y".
PlaylistNames == { <<120>>, <<88>>, <<121>> }

\* Terms search_videos is called with: "a", "zz".
TitleTerms == { <<97>>, <<122, 122>> }

\* Tags search_videos_tag is called with: "FUN", "n s".
TagTerms == { <<70, 85, 78>>, <<110, 32, 115>> }

\* What input() returns in display_matched_videos: <<n>> for text int() parses
\* to n, << >> for text on which int() raises ValueError.
Inputs == { << >> } \cup { <<n>> : n \in 0..(NumVideos + 1) }

(* ------------------------------------------------------------------ *)
(* String functions                                                   *)
(* ------------------------------------------------------------------ *)

\* str.upper() on ASCII text.
upper(s) == [i \in DOMAIN s |-> IF s[i] \in 97..122 THEN s[i] - 32 ELSE s[i]]

\* Python's `a in b` for strings.
contains(b, a) ==
    \E i \in 0..(Len(b) - Len(a)) : SubSeq(b, i + 1, i + Len(a)) = a

\* " ".join(tags)
RECURSIVE join(_)
join(tags) ==
    IF Len(tags) = 0 THEN << >>
    ELSE IF Len(tags) = 1 THEN tags[1]
    ELSE tags[1] \o <<32>> \o join(Tail(tags))

(* ------------------------------------------------------------------ *)
(* The video library (video_library.py, video.py and its data file)    *)
(* ------------------------------------------------------------------ *)

\* Video.title: "Amy", "Bob", then "Cat".
title(video) ==
    CASE video = 1 -> <<65, 109, 121>>
      [] video = 2 -> <<66, 111, 98>>
      [] OTHER     -> <<67, 97, 116>>

\* Video.tags: ("fun",), ("fun", "sad"), then ().
tags(video) ==
    CASE video = 1 -> << <<102, 117, 110>> >>
      [] video = 2 -> << <<102, 117, 110>>, <<115, 97, 100>> >>
      [] OTHER     -> << >>

\* VideoLibrary.get_video: the Video stored under video_id, or None.
get_video(self, video_id) ==
    IF video_id \in DOMAIN self.video_library THEN video_id ELSE None

\* VideoLibrary.get_all_videos: the library's videos in its dict order.
get_all_videos(self) == [i \in 1..NumVideos |-> i]

\* Video.flag_reason
flag_reason(self, video) == self.video_library[video]

(* ------------------------------------------------------------------ *)
(* Python dicts keyed by video id, as the sequence of their keys       *)
(* ------------------------------------------------------------------ *)

InSeq(x, s) == \E i \in DOMAIN s : s[i] = x

\* d[k] = v: a new key goes to the end, an existing key keeps its place.
DictSet(d, k) == IF InSeq(k, d) THEN d ELSE Append(d, k)

\* del d[k] done by moving the last key into the freed place.
DictDel_swap_last(d, k) ==
    [i \in 1..(Len(d) - 1) |-> IF d[i] = k THEN d[Len(d)] ELSE d[i]]

\* del d[k]
DictDel(d, k) == SelectSeq(d, LAMBDA x : x # k)

(* ------------------------------------------------------------------ *)
(* Printed lines                                                      *)
(* ------------------------------------------------------------------ *)

\* One printed line: its template, the video whose title it names (or None),
\* and the flag reason it shows (or "").
Msg(text, video, detail) == [text |-> text, video |-> video, detail |-> detail]

\* flag_reason or 'Not supplied'
flag_msg(reason) == IF reason[1] = "" THEN "Not supplied" ELSE reason[1]

Res(self, out) == [self |-> self, out |-> out]

(* ------------------------------------------------------------------ *)
(* Playback                                                           *)
(* ------------------------------------------------------------------ *)

\* play_video testing the flag reason for truth (`if video.flag_reason`)
\* instead of comparing it with None.
play_video_truthy_flag(self, video_id) ==
    LET s1    == [self EXCEPT !.is_video_paused = FALSE]
        video == get_video(s1, video_id)
    IN  IF video = None
        THEN Res(s1, << Msg("Cannot play video: Video does not exist", None, "") >>)
        ELSE IF flag_reason(s1, video) # NoReason /\ flag_reason(s1, video)[1] # ""
        THEN Res(s1, << Msg("Cannot play video: Video is currently flagged",
                            None, flag_msg(flag_reason(s1, video))) >>)
        ELSE IF s1.playing_video = None
        THEN Res([s1 EXCEPT !.playing_video = video],
                 << Msg("Playing video", video, "") >>)
        ELSE Res([s1 EXCEPT !.playing_video = video],
                 << Msg("Stopping video", s1.playing_video, ""),
                    Msg("Playing video", video, "") >>)

\* play_video with the loaded video stopped before the checks instead of after them.
play_video_stops_first(self, video_id) ==
    LET s1    == [self EXCEPT !.is_video_paused = FALSE, !.playing_video = None]
        video == get_video(s1, video_id)
    IN  IF video = None
        THEN Res(s1, << Msg("Cannot play video: Video does not exist", None, "") >>)
        ELSE IF flag_reason(s1, video) # NoReason
        THEN Res(s1, << Msg("Cannot play video: Video is currently flagged",
                            None, flag_msg(flag_reason(s1, video))) >>)
        ELSE Res([s1 EXCEPT !.playing_video = video],
                 << Msg("Playing video", video, "") >>)

\* play_video without line 41: the paused flag is left as it is.
play_video_keeps_pause(self, video_id) ==
    LET video == get_video(self, video_id)
    IN  IF video = None
        THEN Res(self, << Msg("Cannot play video: Video does not exist", None, "") >>)
        ELSE IF flag_reason(self, video) # NoReason
        THEN Res(self, << Msg("Cannot play video: Video is currently flagged",
                              None, flag_msg(flag_reason(self, video))) >>)
        ELSE IF self.playing_video = None
        THEN Res([self EXCEPT !.playing_video = video],
                 << Msg("Playing video", video, "") >>)
        ELSE Res([self EXCEPT !.playing_video = video],
                 << Msg("Stopping video", self.playing_video, ""),
                    Msg("Playing video", video, "") >>)

play_video(self, video_id) ==
    LET s1    == [self EXCEPT !.is_video_paused = FALSE]
        video == get_video(s1, video_id)
    IN  IF video = None
        THEN Res(s1, << Msg("Cannot play video: Video does not exist", None, "") >>)
        ELSE IF flag_reason(s1, video) # NoReason
        THEN Res(s1, << Msg("Cannot play video: Video is currently flagged",
                            None, flag_msg(flag_reason(s1, video))) >>)
        ELSE IF s1.playing_video = None
        THEN Res([s1 EXCEPT !.playing_video = video],
                 << Msg("Playing video", video, "") >>)
        ELSE Res([s1 EXCEPT !.playing_video = video],
                 << Msg("Stopping video", s1.playing_video, ""),
                    Msg("Playing video", video, "") >>)

stop_video(self) ==
    LET video == self.playing_video
    IN  IF video = None
        THEN Res(self, << Msg("Cannot stop video: No video is currently playing", None, "") >>)
        ELSE Res([self EXCEPT !.playing_video = None],
                 << Msg("Stopping video", video, "") >>)

\* The videos random.choice draws from.
unflagged_videos(self) ==
    SelectSeq(get_all_videos(self), LAMBDA vid : flag_reason(self, vid) = NoReason)

\* play_random_video drawing from all the videos, flagged ones included.
play_random_video_any(self, rand) ==
    LET unflagged == unflagged_videos(self)
    IN  IF Len(unflagged) = 0
        THEN Res(self, << Msg("No videos available", None, "") >>)
        ELSE play_video(self, get_all_videos(self)[rand])

\* rand is the position random.choice picks in unflagged_videos.
play_random_video(self, rand) ==
    LET unflagged == unflagged_videos(self)
    IN  IF Len(unflagged) = 0
        THEN Res(self, << Msg("No videos available", None, "") >>)
        ELSE play_video(self, unflagged[rand])

\* pause_video with the paused flag tested before the loaded video.
pause_video_paused_first(self) ==
    LET video     == self.playing_video
        is_paused == self.is_video_paused
    IN  IF is_paused
        THEN Res(self, << Msg("Video already paused", video, "") >>)
        ELSE IF video = None
        THEN Res(self, << Msg("Cannot pause video: No video is currently playing", None, "") >>)
        ELSE Res([self EXCEPT !.is_video_paused = TRUE],
                 << Msg("Pausing video", video, "") >>)

pause_video(self) ==
    LET video     == self.playing_video
        is_paused == self.is_video_paused
    IN  IF video = None
        THEN Res(self, << Msg("Cannot pause video: No video is currently playing", None, "") >>)
        ELSE IF is_paused
        THEN Res(self, << Msg("Video already paused", video, "") >>)
        ELSE Res([self EXCEPT !.is_video_paused = TRUE],
                 << Msg("Pausing video", video, "") >>)

continue_video(self) ==
    LET video     == self.playing_video
        is_paused == self.is_video_paused
    IN  IF video = None
        THEN Res(self, << Msg("Cannot continue video: No video is currently playing", None, "") >>)
        ELSE IF is_paused
        THEN Res([self EXCEPT !.is_video_paused = FALSE],
                 << Msg("Continuing video", video, "") >>)
        ELSE Res(self, << Msg("Cannot continue video: Video is not paused", None, "") >>)

(* ------------------------------------------------------------------ *)
(* Playlists                                                          *)
(* ------------------------------------------------------------------ *)

\* self._playlists.get(playlist_id) != None
has_playlist(self, playlist_id) == playlist_id \in DOMAIN self.playlists

\* Playlist(playlist_name)
Playlist(playlist_name) == [name |-> playlist_name, videos |-> << >>]

\* create_playlist keyed by the name as given, without upper().
create_playlist_case_sensitive(self, playlist_name) ==
    LET playlist_id == playlist_name
        name_exists == has_playlist(self, playlist_id)
    IN  IF name_exists
        THEN Res(self, << Msg("Cannot create playlist: A playlist with the same name already exists",
                              None, "") >>)
        ELSE Res([self EXCEPT !.playlists =
                      [k \in DOMAIN @ \cup {playlist_id} |->
                          IF k = playlist_id THEN Playlist(playlist_name) ELSE @[k]]],
                 << Msg("Successfully created new playlist", None, "") >>)

create_playlist(self, playlist_name) ==
    LET playlist_id == upper(playlist_name)
        name_exists == has_playlist(self, playlist_id)
    IN  IF name_exists
        THEN Res(self, << Msg("Cannot create playlist: A playlist with the same name already exists",
                              None, "") >>)
        ELSE Res([self EXCEPT !.playlists =
                      [k \in DOMAIN @ \cup {playlist_id} |->
                          IF k = playlist_id THEN Playlist(playlist_name) ELSE @[k]]],
                 << Msg("Successfully created new playlist", None, "") >>)

\* add_to_playlist without the flag check of lines 140-142.
add_to_playlist_no_flag_check(self, playlist_name, video_id) ==
    LET video       == get_video(self, video_id)
        playlist_id == upper(playlist_name)
    IN  IF ~has_playlist(self, playlist_id)
        THEN Res(self, << Msg("Cannot add video: Playlist does not exist", None, "") >>)
        ELSE IF video = None
        THEN Res(self, << Msg("Cannot add video: Video does not exist", None, "") >>)
        ELSE IF InSeq(video, self.playlists[playlist_id].videos)
        THEN Res(self, << Msg("Cannot add video: Video already added", None, "") >>)
        ELSE Res([self EXCEPT !.playlists[playlist_id].videos = DictSet(@, video_id)],
                 << Msg("Added video", video, "") >>)

\* add_to_playlist with the already-added check ahead of the flag check.
add_to_playlist_dup_first(self, playlist_name, video_id) ==
    LET video       == get_video(self, video_id)
        playlist_id == upper(playlist_name)
    IN  IF ~has_playlist(self, playlist_id)
        THEN Res(self, << Msg("Cannot add video: Playlist does not exist", None, "") >>)
        ELSE IF video = None
        THEN Res(self, << Msg("Cannot add video: Video does not exist", None, "") >>)
        ELSE IF InSeq(video, self.playlists[playlist_id].videos)
        THEN Res(self, << Msg("Cannot add video: Video already added", None, "") >>)
        ELSE IF flag_reason(self, video) # NoReason
        THEN Res(self, << Msg("Cannot add video: Video is currently flagged",
                              None, flag_msg(flag_reason(self, video))) >>)
        ELSE Res([self EXCEPT !.playlists[playlist_id].videos = DictSet(@, video_id)],
                 << Msg("Added video", video, "") >>)

add_to_playlist(self, playlist_name, video_id) ==
    LET video       == get_video(self, video_id)
        playlist_id == upper(playlist_name)
    IN  IF ~has_playlist(self, playlist_id)
        THEN Res(self, << Msg("Cannot add video: Playlist does not exist", None, "") >>)
        ELSE IF video = None
        THEN Res(self, << Msg("Cannot add video: Video does not exist", None, "") >>)
        ELSE IF flag_reason(self, video) # NoReason
        THEN Res(self, << Msg("Cannot add video: Video is currently flagged",
                              None, flag_msg(flag_reason(self, video))) >>)
        ELSE IF InSeq(video, self.playlists[playlist_id].videos)
        THEN Res(self, << Msg("Cannot add video: Video already added", None, "") >>)
        ELSE Res([self EXCEPT !.playlists[playlist_id].videos = DictSet(@, video_id)],
                 << Msg("Added video", video, "") >>)

\* remove_from_playlist emptying the playlist, as clear_playlist does.
remove_from_playlist_clears(self, playlist_name, video_id) ==
    LET playlist_id == upper(playlist_name)
    IN  IF ~has_playlist(self, playlist_id)
        THEN Res(self, << Msg("Cannot remove video: Playlist does not exist", None, "") >>)
        ELSE IF video_id \notin DOMAIN self.video_library
        THEN Res(self, << Msg("Cannot remove video: Video does not exist", None, "") >>)
        ELSE IF ~InSeq(video_id, self.playlists[playlist_id].videos)
        THEN Res(self, << Msg("Cannot remove video: Video is not in playlist", None, "") >>)
        ELSE Res([self EXCEPT !.playlists[playlist_id].videos = << >>],
                 << Msg("Removed video", video_id, "") >>)

remove_from_playlist(self, playlist_name, video_id) ==
    LET playlist_id == upper(playlist_name)
    IN  IF ~has_playlist(self, playlist_id)
        THEN Res(self, << Msg("Cannot remove video: Playlist does not exist", None, "") >>)
        ELSE IF video_id \notin DOMAIN self.video_library
        THEN Res(self, << Msg("Cannot remove video: Video does not exist", None, "") >>)
        ELSE IF ~InSeq(video_id, self.playlists[playlist_id].videos)
        THEN Res(self, << Msg("Cannot remove video: Video is not in playlist", None, "") >>)
        ELSE Res([self EXCEPT !.playlists[playlist_id].videos = DictDel(@, video_id)],
                 << Msg("Removed video", video_id, "") >>)

\* clear_playlist dropping the playlist from the dictionary, as delete_playlist does.
clear_playlist_deletes(self, playlist_name) ==
    LET playlist_id == upper(playlist_name)
    IN  IF ~has_playlist(self, playlist_id)
        THEN Res(self, << Msg("Cannot clear playlist: Playlist does not exist", None, "") >>)
        ELSE Res([self EXCEPT !.playlists =
                      [k \in DOMAIN @ \ {playlist_id} |-> @[k]]],
                 << Msg("Successfully removed all videos", None, "") >>)

clear_playlist(self, playlist_name) ==
    LET playlist_id == upper(playlist_name)
    IN  IF ~has_playlist(self, playlist_id)
        THEN Res(self, << Msg("Cannot clear playlist: Playlist does not exist", None, "") >>)
        ELSE Res([self EXCEPT !.playlists[playlist_id].videos = << >>],
                 << Msg("Successfully removed all videos", None, "") >>)

\* delete_playlist stopping the playing video when the deleted playlist holds it.
delete_playlist_stops_playing(self, playlist_name) ==
    LET playlist_id == upper(playlist_name)
    IN  IF ~has_playlist(self, playlist_id)
        THEN Res(self, << Msg("Cannot delete playlist: Playlist does not exist", None, "") >>)
        ELSE Res([self EXCEPT !.playlists =
                                  [k \in DOMAIN @ \ {playlist_id} |-> @[k]],
                              !.playing_video =
                                  IF InSeq(@, self.playlists[playlist_id].videos)
                                  THEN None ELSE @],
                 << Msg("Deleted playlist", None, "") >>)

delete_playlist(self, playlist_name) ==
    LET playlist_id == upper(playlist_name)
    IN  IF ~has_playlist(self, playlist_id)
        THEN Res(self, << Msg("Cannot delete playlist: Playlist does not exist", None, "") >>)
        ELSE Res([self EXCEPT !.playlists =
                      [k \in DOMAIN @ \ {playlist_id} |-> @[k]]],
                 << Msg("Deleted playlist", None, "") >>)

(* ------------------------------------------------------------------ *)
(* Search                                                             *)
(* ------------------------------------------------------------------ *)

\* The numbered list is printed, one line per video, then the answer read by
\* input() is acted on.
display_matched_videos(self, videos, input) ==
    LET listing == [i \in 1..Len(videos) |-> Msg("result", videos[i], "")]
                   \o << Msg("Would you like to play any of the above?", None, "") >>
    IN  IF input = << >>
        THEN Res(self, listing)
        ELSE IF input[1] \in 1..Len(videos)
        THEN LET r == play_video(self, videos[input[1]])
             IN  Res(r.self, listing \o r.out)
        ELSE Res(self, listing)

\* title_matches comparing the term with the title as written, without upper().
title_matches_case_sensitive(self, search_term) ==
    SelectSeq(get_all_videos(self),
              LAMBDA video : /\ contains(title(video), search_term)
                             /\ flag_reason(self, video) = NoReason)

\* The videos search_videos lists.
title_matches(self, search_term) ==
    SelectSeq(get_all_videos(self),
              LAMBDA video : /\ contains(upper(title(video)), upper(search_term))
                             /\ flag_reason(self, video) = NoReason)

search_videos(self, search_term, input) ==
    LET matched_videos == title_matches(self, search_term)
    IN  IF Len(matched_videos) # 0
        THEN LET r == display_matched_videos(self, matched_videos, input)
             IN  Res(r.self, << Msg("Here are the results", None, "") >> \o r.out)
        ELSE Res(self, << Msg("No search results", None, "") >>)

\* The videos search_videos_tag lists.
tag_matches(self, video_tag) ==
    SelectSeq(get_all_videos(self),
              LAMBDA video : /\ contains(upper(join(tags(video))), upper(video_tag))
                             /\ flag_reason(self, video) = NoReason)

search_videos_tag(self, video_tag, input) ==
    LET matched_videos == tag_matches(self, video_tag)
    IN  IF Len(matched_videos) # 0
        THEN LET r == display_matched_videos(self, matched_videos, input)
             IN  Res(r.self, << Msg("Here are the results", None, "") >> \o r.out)
        ELSE Res(self, << Msg("No search results", None, "") >>)

(* ------------------------------------------------------------------ *)
(* Flagging                                                           *)
(* ------------------------------------------------------------------ *)

\* flag_video without the already-flagged check of lines 302-303.
flag_video_overwrites(self, video_id, reason) ==
    LET video == get_video(self, video_id)
    IN  IF video = None
        THEN Res(self, << Msg("Cannot flag video: Video does not exist", None, "") >>)
        ELSE LET r == IF self.playing_video = video
                      THEN stop_video(self)
                      ELSE Res(self, << >>)
             IN  Res([r.self EXCEPT !.video_library[video_id] = <<reason>>],
                     r.out \o << Msg("Successfully flagged video", video,
                                     flag_msg(<<reason>>)) >>)

\* flag_video without the stop of lines 305-306.
flag_video_no_stop(self, video_id, reason) ==
    LET video == get_video(self, video_id)
    IN  IF video = None
        THEN Res(self, << Msg("Cannot flag video: Video does not exist", None, "") >>)
        ELSE IF flag_reason(self, video) # NoReason
        THEN Res(self, << Msg("Cannot flag video: Video is already flagged", None, "") >>)
        ELSE Res([self EXCEPT !.video_library[video_id] = <<reason>>],
                 << Msg("Successfully flagged video", video, flag_msg(<<reason>>)) >>)

flag_video(self, video_id, reason) ==
    LET video == get_video(self, video_id)
    IN  IF video = None
        THEN Res(self, << Msg("Cannot flag video: Video does not exist", None, "") >>)
        ELSE IF flag_reason(self, video) # NoReason
        THEN Res(self, << Msg("Cannot flag video: Video is already flagged", None, "") >>)
        ELSE LET r == IF self.playing_video = video
                      THEN stop_video(self)
                      ELSE Res(self, << >>)
             IN  Res([r.self EXCEPT !.video_library[video_id] = <<reason>>],
                     r.out \o << Msg("Successfully flagged video", video,
                                     flag_msg(<<reason>>)) >>)

\* allow_video putting the allowed video back on as the playing video.
allow_video_plays(self, video_id) ==
    LET video == get_video(self, video_id)
    IN  IF video = None
        THEN Res(self, << Msg("Cannot remove flag from video: Video does not exist", None, "") >>)
        ELSE IF flag_reason(self, video) = NoReason
        THEN Res(self, << Msg("Cannot remove flag from video: Video is not flagged", None, "") >>)
        ELSE Res([self EXCEPT !.video_library[video_id] = NoReason,
                              !.playing_video = video],
                 << Msg("Successfully removed flag from video", video, "") >>)

allow_video(self, video_id) ==
    LET video == get_video(self, video_id)
    IN  IF video = None
        THEN Res(self, << Msg("Cannot remove flag from video: Video does not exist", None, "") >>)
        ELSE IF flag_reason(self, video) = NoReason
        THEN Res(self, << Msg("Cannot remove flag from video: Video is not flagged", None, "") >>)
        ELSE Res([self EXCEPT !.video_library[video_id] = NoReason],
                 << Msg("Successfully removed flag from video", video, "") >>)

(* ------------------------------------------------------------------ *)
(* Queries                                                            *)
(* ------------------------------------------------------------------ *)

show_playing(self) ==
    LET video == self.playing_video
    IN  IF video = None
        THEN Res(self, << Msg("No video is currently playing", None, "") >>)
        ELSE Res(self, << Msg("Currently playing", video,
                              IF self.is_video_paused THEN "- PAUSED" ELSE "") >>)

\* show_playlist leaving flagged videos out of the list.
show_playlist_filters(self, playlist_name) ==
    LET playlist_id == upper(playlist_name)
    IN  IF ~has_playlist(self, playlist_id)
        THEN Res(self, << Msg("Cannot show playlist: Playlist does not exist", None, "") >>)
        ELSE LET videos == SelectSeq(self.playlists[playlist_id].videos,
                                     LAMBDA video : flag_reason(self, video) = NoReason)
             IN  IF Len(videos) < 1
                 THEN Res(self, << Msg("Showing playlist", None, ""),
                                   Msg("No videos here yet", None, "") >>)
                 ELSE Res(self,
                          << Msg("Showing playlist", None, "") >> \o
                          [i \in 1..Len(videos) |-> Msg("video", videos[i], "")])

show_playlist(self, playlist_name) ==
    LET playlist_id == upper(playlist_name)
    IN  IF ~has_playlist(self, playlist_id)
        THEN Res(self, << Msg("Cannot show playlist: Playlist does not exist", None, "") >>)
        ELSE LET videos == self.playlists[playlist_id].videos
             IN  IF Len(videos) < 1
                 THEN Res(self, << Msg("Showing playlist", None, ""),
                                   Msg("No videos here yet", None, "") >>)
                 ELSE Res(self,
                          << Msg("Showing playlist", None, "") >> \o
                          [i \in 1..Len(videos) |->
                              Msg("video", videos[i],
                                  IF flag_reason(self, videos[i]) # NoReason
                                  THEN flag_msg(flag_reason(self, videos[i]))
                                  ELSE "")])

(* ------------------------------------------------------------------ *)
(* Commands                                                           *)
(* ------------------------------------------------------------------ *)

\* One call of a command method with its arguments; rand is what random.choice
\* picks and input what input() returns during the call.
Cmd(op, playlist_name, video_id, reason, term, input, rand) ==
    [op |-> op, playlist_name |-> playlist_name, video_id |-> video_id,
     reason |-> reason, term |-> term, input |-> input, rand |-> rand]

PlayVideoCmds == { Cmd("play_video", << >>, v, "", << >>, << >>, 0) : v \in AllIds }

StopVideoCmds == { Cmd("stop_video", << >>, None, "", << >>, << >>, 0) }

\* random.choice picks one of the unflagged videos (none when there is none).
PlayRandomVideoCmds(self) ==
    { Cmd("play_random_video", << >>, None, "", << >>, << >>, rand) :
        rand \in IF Len(unflagged_videos(self)) = 0 THEN {0}
                 ELSE 1..Len(unflagged_videos(self)) }

PauseVideoCmds == { Cmd("pause_video", << >>, None, "", << >>, << >>, 0) }

ContinueVideoCmds == { Cmd("continue_video", << >>, None, "", << >>, << >>, 0) }

ShowPlayingCmds == { Cmd("show_playing", << >>, None, "", << >>, << >>, 0) }

CreatePlaylistCmds ==
    { Cmd("create_playlist", n, None, "", << >>, << >>, 0) : n \in PlaylistNames }

AddToPlaylistCmds ==
    { Cmd("add_to_playlist", n, v, "", << >>, << >>, 0) : n \in PlaylistNames, v \in AllIds }

RemoveFromPlaylistCmds ==
    { Cmd("remove_from_playlist", n, v, "", << >>, << >>, 0) :
        n \in PlaylistNames, v \in AllIds }

ShowPlaylistCmds ==
    { Cmd("show_playlist", n, None, "", << >>, << >>, 0) : n \in PlaylistNames }

ClearPlaylistCmds ==
    { Cmd("clear_playlist", n, None, "", << >>, << >>, 0) : n \in PlaylistNames }

DeletePlaylistCmds ==
    { Cmd("delete_playlist", n, None, "", << >>, << >>, 0) : n \in PlaylistNames }

SearchVideosCmds ==
    { Cmd("search_videos", << >>, None, "", t, i, 0) : t \in TitleTerms, i \in Inputs }

SearchVideosTagCmds ==
    { Cmd("search_videos_tag", << >>, None, "", t, i, 0) : t \in TagTerms, i \in Inputs }

FlagVideoCmds ==
    { Cmd("flag_video", << >>, v, r, << >>, << >>, 0) : v \in AllIds, r \in Reasons }

AllowVideoCmds == { Cmd("allow_video", << >>, v, "", << >>, << >>, 0) : v \in AllIds }

\* Every call that can be made on the player in state self.
Commands(self) ==
    PlayVideoCmds \cup StopVideoCmds \cup PlayRandomVideoCmds(self) \cup PauseVideoCmds
    \cup ContinueVideoCmds \cup ShowPlayingCmds \cup CreatePlaylistCmds
    \cup AddToPlaylistCmds \cup RemoveFromPlaylistCmds \cup ShowPlaylistCmds
    \cup ClearPlaylistCmds \cup DeletePlaylistCmds \cup SearchVideosCmds
    \cup SearchVideosTagCmds \cup FlagVideoCmds \cup AllowVideoCmds

\* The call made: the player after it and the lines it printed.
Run(self, cmd) ==
    CASE cmd.op = "play_video"           -> play_video(self, cmd.video_id)
      [] cmd.op = "stop_video"           -> stop_video(self)
      [] cmd.op = "play_random_video"    -> play_random_video(self, cmd.rand)
      [] cmd.op = "pause_video"          -> pause_video(self)
      [] cmd.op = "continue_video"       -> continue_video(self)
      [] cmd.op = "show_playing"         -> show_playing(self)
      [] cmd.op = "create_playlist"      -> create_playlist(self, cmd.playlist_name)
      [] cmd.op = "add_to_playlist"      ->
            add_to_playlist(self, cmd.playlist_name, cmd.video_id)
      [] cmd.op = "remove_from_playlist" ->
            remove_from_playlist(self, cmd.playlist_name, cmd.video_id)
      [] cmd.op = "show_playlist"        -> show_playlist(self, cmd.playlist_name)
      [] cmd.op = "clear_playlist"       -> clear_playlist(self, cmd.playlist_name)
      [] cmd.op = "delete_playlist"      -> delete_playlist(self, cmd.playlist_name)
      [] cmd.op = "search_videos"        -> search_videos(self, cmd.term, cmd.input)
      [] cmd.op = "search_videos_tag"    -> search_videos_tag(self, cmd.term, cmd.input)
      [] cmd.op = "flag_video"           -> flag_video(self, cmd.video_id, cmd.reason)
      [] cmd.op = "allow_video"          -> allow_video(self, cmd.video_id)

(* ------------------------------------------------------------------ *)
(* State                                                              *)
(* ------------------------------------------------------------------ *)

VARIABLES
    video_library,      \* self._video_library: video id -> flag_reason
    playlists,          \* self._playlists: playlist_id -> Playlist
    playing_video,      \* self._playing_video
    is_video_paused     \* self._is_video_paused

vars == <<video_library, playlists, playing_video, is_video_paused>>

\* The player object.
Self ==
    [video_library   |-> video_library,
     playlists       |-> playlists,
     playing_video   |-> playing_video,
     is_video_paused |-> is_video_paused]

\* VideoPlayer.__init__ over a freshly loaded library.
Init ==
    /\ video_library = [v \in VideoIds |-> NoReason]
    /\ playlists = << >>
    /\ playing_video = None
    /\ is_video_paused = FALSE

\* One command runs to completion before the next begins: the player becomes
\* the object the call leaves.
Becomes(result) ==
    \E r \in {result} :
        /\ video_library' = r.self.video_library
        /\ playlists' = r.self.playlists
        /\ playing_video' = r.self.playing_video
        /\ is_video_paused' = r.self.is_video_paused

PlayVideo ==
    \E video_id \in AllIds : Becomes(play_video(Self, video_id))

StopVideo == Becomes(stop_video(Self))

PlayRandomVideo ==
    \E cmd \in PlayRandomVideoCmds(Self) : Becomes(play_random_video(Self, cmd.rand))

PauseVideo == Becomes(pause_video(Self))

ContinueVideo == Becomes(continue_video(Self))

ShowPlaying == Becomes(show_playing(Self))

CreatePlaylist ==
    \E playlist_name \in PlaylistNames : Becomes(create_playlist(Self, playlist_name))

AddToPlaylist ==
    \E playlist_name \in PlaylistNames, video_id \in AllIds :
        Becomes(add_to_playlist(Self, playlist_name, video_id))

RemoveFromPlaylist ==
    \E playlist_name \in PlaylistNames, video_id \in AllIds :
        Becomes(remove_from_playlist(Self, playlist_name, video_id))

ShowPlaylist ==
    \E playlist_name \in PlaylistNames : Becomes(show_playlist(Self, playlist_name))

ClearPlaylist ==
    \E playlist_name \in PlaylistNames : Becomes(clear_playlist(Self, playlist_name))

DeletePlaylist ==
    \E playlist_name \in PlaylistNames : Becomes(delete_playlist(Self, playlist_name))

SearchVideos ==
    \E search_term \in TitleTerms, input \in Inputs :
        Becomes(search_videos(Self, search_term, input))

SearchVideosTag ==
    \E video_tag \in TagTerms, input \in Inputs :
        Becomes(search_videos_tag(Self, video_tag, input))

FlagVideo ==
    \E video_id \in AllIds, reason \in Reasons :
        Becomes(flag_video(Self, video_id, reason))

AllowVideo ==
    \E video_id \in AllIds : Becomes(allow_video(Self, video_id))

Next ==
    \/ PlayVideo
    \/ StopVideo
    \/ PlayRandomVideo
    \/ PauseVideo
    \/ ContinueVideo
    \/ ShowPlaying
    \/ CreatePlaylist
    \/ AddToPlaylist
    \/ RemoveFromPlaylist
    \/ ShowPlaylist
    \/ ClearPlaylist
    \/ DeletePlaylist
    \/ SearchVideos
    \/ SearchVideosTag
    \/ FlagVideo
    \/ AllowVideo

Spec == Init /\ [][Next]_vars

(* ------------------------------------------------------------------ *)
(* Playback as show_playing reports it                                *)
(* ------------------------------------------------------------------ *)

\* <<"Stopped", None>>, <<"Playing", video>> or <<"Paused", video>>.
Playback(self) ==
    IF self.playing_video = None THEN <<"Stopped", None>>
    ELSE IF self.is_video_paused THEN <<"Paused", self.playing_video>>
    ELSE <<"Playing", self.playing_video>>

\* The commands that reach play_video.
PlayOps == {"play_video", "play_random_video", "search_videos", "search_videos_tag"}

\* The single line a failed call prints.
Fails(r, text) == r.out = << Msg(text, None, "") >>

(* ------------------------------------------------------------------ *)
(* C1                                                                 *)
(* ------------------------------------------------------------------ *)

\* C1: in every reachable state the loaded video, playing or paused, is not
\* flagged; and flag_video on the loaded video, when it succeeds, leaves no
\* video loaded (Stopped) and the video flagged with the given reason.
C1_PlayingNeverFlagged ==
    /\ playing_video # None => flag_reason(Self, playing_video) = NoReason
    /\ \A video_id \in VideoIds, reason \in Reasons :
          (playing_video = video_id /\ flag_reason(Self, video_id) = NoReason) =>
             LET r == flag_video(Self, video_id, reason)
             IN  /\ Playback(r.self) = <<"Stopped", None>>
                 /\ r.self.video_library[video_id] = <<reason>>
                 /\ r.out[1] = Msg("Stopping video", video_id, "")

\* A video is loaded and paused while another one is flagged, and flagging the
\* loaded one stops it.
C1_Witness ==
    /\ playing_video # None
    /\ is_video_paused
    /\ \E v \in VideoIds : flag_reason(Self, v) # NoReason
    /\ Playback(flag_video(Self, playing_video, "spoiler").self) = <<"Stopped", None>>

(* ------------------------------------------------------------------ *)
(* C2                                                                 *)
(* ------------------------------------------------------------------ *)

\* The line each command prints for an id that is not in the library.
VideoNotFound(op) ==
    CASE op = "play_video"           -> "Cannot play video: Video does not exist"
      [] op = "add_to_playlist"      -> "Cannot add video: Video does not exist"
      [] op = "remove_from_playlist" -> "Cannot remove video: Video does not exist"
      [] op = "flag_video"           -> "Cannot flag video: Video does not exist"
      [] op = "allow_video"          -> "Cannot remove flag from video: Video does not exist"

\* The calls that take a video id.
VideoIdCmds ==
    PlayVideoCmds \cup AddToPlaylistCmds \cup RemoveFromPlaylistCmds
    \cup FlagVideoCmds \cup AllowVideoCmds

\* C2: for an id that is not in the library, every command that takes a video
\* id (the playlist commands being called on a registered playlist, where the
\* id is the first precondition to fail) prints its "Video does not exist"
\* line and leaves the whole player as it was: the loaded video, whether it
\* is paused, every playlist and every flag.
C2_UnknownIdNoMutation ==
    \A cmd \in VideoIdCmds :
        (/\ cmd.video_id \in UnknownIds
         /\ cmd.playlist_name # << >> => has_playlist(Self, upper(cmd.playlist_name)))
        => LET r == Run(Self, cmd)
           IN  /\ Fails(r, VideoNotFound(cmd.op))
               /\ Playback(r.self) = Playback(Self)
               /\ r.self.playlists = playlists
               /\ r.self.video_library = video_library

(* ------------------------------------------------------------------ *)
(* C3                                                                 *)
(* ------------------------------------------------------------------ *)

\* The transitions of the playback state machine as listed: from b to a by cmd.
ListedEdge(b, cmd, a) ==
    \/ a = b
    \/ b[1] = "Stopped" /\ a[1] = "Playing" /\ cmd.op \in PlayOps
    \/ b[1] = "Playing" /\ a[1] = "Playing" /\ cmd.op \in PlayOps
    \/ b[1] = "Playing" /\ a[1] = "Stopped" /\ cmd.op = "stop_video"
    \/ b[1] = "Playing" /\ a = <<"Paused", b[2]>> /\ cmd.op = "pause_video"
    \/ b[1] = "Paused" /\ a = <<"Playing", b[2]>> /\ cmd.op = "continue_video"
    \/ b[1] = "Paused" /\ a[1] = "Stopped" /\ cmd.op = "stop_video"
    \/ b[1] # "Stopped" /\ a[1] = "Stopped" /\ cmd.op = "flag_video"
          /\ cmd.video_id = b[2]

\* C3 as stated: playback starts Stopped and every call, successful or
\* failed, leaves playback where it was or moves it along a listed edge.
C3_OnlyListedEdges ==
    /\ Playback(Self) = <<"Stopped", None>>
    /\ [](\A cmd \in Commands(Self) :
             ListedEdge(Playback(Self), cmd, Playback(Run(Self, cmd).self)))

\* C3 amended: the listed edges and Paused --play--> Playing. A play call made
\* while a video is paused ends in Playing: of the requested video when the
\* call succeeds, of the video that was paused when it fails.
C3_EdgesWithPlayFromPaused ==
    /\ Playback(Self) = <<"Stopped", None>>
    /\ [](\A cmd \in Commands(Self) :
             LET b == Playback(Self)
                 a == Playback(Run(Self, cmd).self)
             IN  \/ ListedEdge(b, cmd, a)
                 \/ b[1] = "Paused" /\ a[1] = "Playing" /\ cmd.op \in PlayOps)

\* A video is paused and playing another, unflagged, one leaves that one Playing.
C3_Witness ==
    /\ playing_video # None
    /\ is_video_paused
    /\ \E v \in VideoIds :
          /\ v # playing_video
          /\ Playback(play_video(Self, v).self) = <<"Playing", v>>

(* ------------------------------------------------------------------ *)
(* C4                                                                 *)
(* ------------------------------------------------------------------ *)

\* C4: in every reachable state stop fails with "No video is currently
\* playing" iff no video is loaded and otherwise unloads the video; pause and
\* continue fail with "No video is currently playing" when none is loaded;
\* on a loaded video pause fails with "already paused" when it is paused and
\* sets the paused flag otherwise, continue fails with "not paused" when it is
\* not paused and clears the paused flag otherwise; a failing call leaves the
\* player as it was. This covers the state left by stopping a paused video.
C4_StopPauseContinue ==
    LET s == stop_video(Self)
        p == pause_video(Self)
        c == continue_video(Self)
    IN  /\ Fails(s, "Cannot stop video: No video is currently playing")
              <=> playing_video = None
        /\ playing_video = None =>
              /\ s.self = Self
              /\ Fails(p, "Cannot pause video: No video is currently playing")
              /\ p.self = Self
              /\ Fails(c, "Cannot continue video: No video is currently playing")
              /\ c.self = Self
        /\ playing_video # None =>
              /\ s.self = [Self EXCEPT !.playing_video = None]
              /\ s.out = << Msg("Stopping video", playing_video, "") >>
        /\ (playing_video # None /\ is_video_paused) =>
              /\ p.out = << Msg("Video already paused", playing_video, "") >>
              /\ p.self = Self
              /\ c.out = << Msg("Continuing video", playing_video, "") >>
              /\ c.self = [Self EXCEPT !.is_video_paused = FALSE]
        /\ (playing_video # None /\ ~is_video_paused) =>
              /\ p.out = << Msg("Pausing video", playing_video, "") >>
              /\ p.self = [Self EXCEPT !.is_video_paused = TRUE]
              /\ Fails(c, "Cannot continue video: Video is not paused")
              /\ c.self = Self

\* A paused video has been stopped: nothing is loaded, the paused flag is
\* still set, and pause and continue report that nothing is playing.
C4_Witness ==
    /\ playing_video = None
    /\ is_video_paused
    /\ Fails(pause_video(Self), "Cannot pause video: No video is currently playing")
    /\ Fails(continue_video(Self), "Cannot continue video: No video is currently playing")

(* ------------------------------------------------------------------ *)
(* C5, C6                                                             *)
(* ------------------------------------------------------------------ *)

\* C5: in every reachable state, play_video of a library video that is not
\* flagged prints "Playing video" for it and leaves it loaded and not paused,
\* whatever was loaded or paused before.
C5_PlayUnflagged ==
    \A video_id \in VideoIds :
        flag_reason(Self, video_id) = NoReason =>
            LET r == play_video(Self, video_id)
            IN  /\ Playback(r.self) = <<"Playing", video_id>>
                /\ r.out[Len(r.out)] = Msg("Playing video", video_id, "")

\* Another video is paused, or the paused flag was left set by stopping a
\* paused video, and play_video of an unflagged video leaves it Playing.
C5_Witness ==
    /\ is_video_paused
    /\ \E v \in VideoIds :
          /\ v # playing_video
          /\ flag_reason(Self, v) = NoReason
          /\ Playback(play_video(Self, v).self) = <<"Playing", v>>
    /\ \E v \in VideoIds : flag_reason(Self, v) # NoReason

\* C6: in every reachable state, play_video of a flagged video prints the
\* "currently flagged" line with that video's reason ('Not supplied' for an
\* empty one) and changes nothing: the video that was loaded is still loaded,
\* paused if and only if it was paused before the call.
C6_PlayFlaggedNoChange ==
    \A video_id \in VideoIds :
        flag_reason(Self, video_id) # NoReason =>
            LET r == play_video(Self, video_id)
            IN  /\ r.out = << Msg("Cannot play video: Video is currently flagged", None,
                                  flag_msg(flag_reason(Self, video_id))) >>
                /\ Playback(r.self) = Playback(Self)

(* ------------------------------------------------------------------ *)
(* C7                                                                 *)
(* ------------------------------------------------------------------ *)

NoDuplicates(s) == \A i, j \in DOMAIN s : s[i] = s[j] => i = j

\* C7: in every reachable state every playlist holds no id twice and only ids
\* of the library; and add_to_playlist changes a playlist only by appending
\* an id that is in the library, is not flagged at that moment and is not yet
\* in that playlist.
C7_PlaylistContents ==
    /\ \A k \in DOMAIN playlists :
          /\ NoDuplicates(playlists[k].videos)
          /\ \A i \in DOMAIN playlists[k].videos : playlists[k].videos[i] \in VideoIds
    /\ \A playlist_name \in PlaylistNames, video_id \in AllIds :
          LET r == add_to_playlist(Self, playlist_name, video_id)
              k == upper(playlist_name)
          IN  r.self # Self =>
                /\ video_id \in VideoIds
                /\ flag_reason(Self, video_id) = NoReason
                /\ k \in DOMAIN playlists
                /\ ~InSeq(video_id, playlists[k].videos)
                /\ r.self = [Self EXCEPT !.playlists[k].videos = Append(@, video_id)]

\* A playlist holds every video of the library, one of them flagged since it
\* was added, and a further add of each is refused.
C7_Witness ==
    \E k \in DOMAIN playlists :
        /\ Len(playlists[k].videos) = NumVideos
        /\ \E i \in DOMAIN playlists[k].videos :
              flag_reason(Self, playlists[k].videos[i]) # NoReason
        /\ \A v \in VideoIds : add_to_playlist(Self, playlists[k].name, v).self = Self

(* ------------------------------------------------------------------ *)
(* C8                                                                 *)
(* ------------------------------------------------------------------ *)

\* C8: playlists are identified up to case. No two registered playlists have
\* names equal up to case (each is registered under the uppercase of its
\* name); and for a registered playlist named n and every m with the same
\* uppercase, create_playlist(m) fails with "already exists" and changes
\* nothing, and add_to_playlist, remove_from_playlist, clear_playlist,
\* delete_playlist and show_playlist called with m do what they do when called
\* with n, touching no playlist but that one.
C8_CaseInsensitiveIdentity ==
    /\ \A k \in DOMAIN playlists : k = upper(playlists[k].name)
    /\ \A k1, k2 \in DOMAIN playlists :
          upper(playlists[k1].name) = upper(playlists[k2].name) => k1 = k2
    /\ \A k \in DOMAIN playlists, m \in PlaylistNames :
          upper(m) = upper(playlists[k].name) =>
             LET n == playlists[k].name
                 OnlyK(r) == /\ DOMAIN r.self.playlists \cup {k} = DOMAIN playlists
                             /\ \A j \in DOMAIN playlists \ {k} :
                                   /\ j \in DOMAIN r.self.playlists
                                   /\ r.self.playlists[j] = playlists[j]
             IN  /\ Fails(create_playlist(Self, m),
                          "Cannot create playlist: A playlist with the same name already exists")
                 /\ create_playlist(Self, m).self = Self
                 /\ \A v \in AllIds :
                       /\ add_to_playlist(Self, m, v) = add_to_playlist(Self, n, v)
                       /\ OnlyK(add_to_playlist(Self, m, v))
                       /\ remove_from_playlist(Self, m, v) = remove_from_playlist(Self, n, v)
                       /\ OnlyK(remove_from_playlist(Self, m, v))
                 /\ clear_playlist(Self, m) = clear_playlist(Self, n)
                 /\ clear_playlist(Self, m).self.playlists[k].videos = << >>
                 /\ OnlyK(clear_playlist(Self, m))
                 /\ delete_playlist(Self, m) = delete_playlist(Self, n)
                 /\ k \notin DOMAIN delete_playlist(Self, m).self.playlists
                 /\ OnlyK(delete_playlist(Self, m))
                 /\ show_playlist(Self, m) = show_playlist(Self, n)
                 /\ show_playlist(Self, m).out[1] = Msg("Showing playlist", None, "")

\* The playlist created as "x" holds a video, a second playlist is
\* registered, and adding to "X" appends to the playlist created as "x".
C8_Witness ==
    /\ DOMAIN playlists = { <<88>>, <<89>> }
    /\ playlists[<<88>>].name = <<120>>
    /\ Len(playlists[<<88>>].videos) >= 1
    /\ \E v \in VideoIds :
          add_to_playlist(Self, <<88>>, v).self.playlists[<<88>>].videos
              = Append(playlists[<<88>>].videos, v)

(* ------------------------------------------------------------------ *)
(* C9                                                                 *)
(* ------------------------------------------------------------------ *)

\* C9: add_to_playlist reports the first precondition that fails in the
\* order playlist exists, video exists, video not flagged, video not already
\* in the playlist, and changes nothing when one fails; when none fails it
\* appends the id.
C9_AddPreconditionOrder ==
    \A playlist_name \in PlaylistNames, video_id \in AllIds :
        LET r == add_to_playlist(Self, playlist_name, video_id)
            k == upper(playlist_name)
        IN  IF k \notin DOMAIN playlists
            THEN Fails(r, "Cannot add video: Playlist does not exist") /\ r.self = Self
            ELSE IF video_id \notin VideoIds
            THEN Fails(r, "Cannot add video: Video does not exist") /\ r.self = Self
            ELSE IF video_library[video_id] # NoReason
            THEN /\ r.out = << Msg("Cannot add video: Video is currently flagged", None,
                                   flag_msg(video_library[video_id])) >>
                 /\ r.self = Self
            ELSE IF InSeq(video_id, playlists[k].videos)
            THEN Fails(r, "Cannot add video: Video already added") /\ r.self = Self
            ELSE /\ r.out = << Msg("Added video", video_id, "") >>
                 /\ r.self.playlists[k].videos = Append(playlists[k].videos, video_id)

\* A video that is in a playlist was flagged afterwards, and adding it again
\* reports the flag; an unknown id on an unregistered playlist reports the
\* playlist.
C9_Witness ==
    /\ \E k \in DOMAIN playlists, v \in VideoIds :
          /\ InSeq(v, playlists[k].videos)
          /\ video_library[v] # NoReason
          /\ add_to_playlist(Self, playlists[k].name, v).out[1].text
                = "Cannot add video: Video is currently flagged"
    /\ \E n \in PlaylistNames, u \in UnknownIds :
          /\ upper(n) \notin DOMAIN playlists
          /\ Fails(add_to_playlist(Self, n, u), "Cannot add video: Playlist does not exist")

(* ------------------------------------------------------------------ *)
(* C10                                                                *)
(* ------------------------------------------------------------------ *)

\* C10: in every reachable state, for every registered playlist and every
\* unflagged library video that is not in it, add_to_playlist succeeds and
\* puts the id at the end of the list, and remove_from_playlist of the same
\* id right after it succeeds and leaves the player, the playlist's ordered
\* list included, exactly as it was before the add.
C10_AddRemoveRoundTrip ==
    \A playlist_name \in PlaylistNames, video_id \in VideoIds :
        LET k == upper(playlist_name)
        IN  (/\ k \in DOMAIN playlists
             /\ video_library[video_id] = NoReason
             /\ ~InSeq(video_id, playlists[k].videos))
            => LET added   == add_to_playlist(Self, playlist_name, video_id)
                   removed == remove_from_playlist(added.self, playlist_name, video_id)
               IN  /\ added.out = << Msg("Added video", video_id, "") >>
                   /\ added.self.playlists[k].videos
                         = Append(playlists[k].videos, video_id)
                   /\ removed.out = << Msg("Removed video", video_id, "") >>
                   /\ removed.self.playlists[k].videos = playlists[k].videos
                   /\ removed.self = Self

\* A playlist holds two videos in the order opposite to the library's, a
\* third, unflagged, video is not in it, and adding then removing that one
\* gives the two back in their order.
C10_Witness ==
    \E k \in DOMAIN playlists, v \in VideoIds :
        /\ Len(playlists[k].videos) = 2
        /\ playlists[k].videos[1] > playlists[k].videos[2]
        /\ ~InSeq(v, playlists[k].videos)
        /\ video_library[v] = NoReason
        /\ remove_from_playlist(add_to_playlist(Self, playlists[k].name, v).self,
                                playlists[k].name, v).self.playlists[k].videos
              = playlists[k].videos

(* ------------------------------------------------------------------ *)
(* C11                                                                *)
(* ------------------------------------------------------------------ *)

\* C11: flag_video on a flagged video fails with "already flagged" and
\* changes nothing. So for an unflagged library video and reasons r1, r2,
\* after flag_video(id, r1) then flag_video(id, r2) the video is flagged with
\* r1 and the player (playback, playlists, the other flags) is as the first
\* call left it.
C11_SecondFlagChangesNothing ==
    /\ \A video_id \in VideoIds, reason \in Reasons :
          video_library[video_id] # NoReason =>
             LET r == flag_video(Self, video_id, reason)
             IN  /\ Fails(r, "Cannot flag video: Video is already flagged")
                 /\ r.self = Self
    /\ \A video_id \in VideoIds, r1 \in Reasons, r2 \in Reasons :
          video_library[video_id] = NoReason =>
             LET first  == flag_video(Self, video_id, r1)
                 second == flag_video(first.self, video_id, r2)
             IN  /\ first.self.video_library[video_id] = <<r1>>
                 /\ Fails(second, "Cannot flag video: Video is already flagged")
                 /\ second.self = first.self
                 /\ second.self.video_library[video_id] = <<r1>>

\* A video in a playlist is flagged without a reason while another video is
\* paused, and flagging it again with a reason is refused.
C11_Witness ==
    \E v \in VideoIds, k \in DOMAIN playlists :
        /\ video_library[v] = <<"">>
        /\ InSeq(v, playlists[k].videos)
        /\ playing_video # None
        /\ is_video_paused
        /\ Fails(flag_video(Self, v, "spoiler"), "Cannot flag video: Video is already flagged")

(* ------------------------------------------------------------------ *)
(* C12                                                                *)
(* ------------------------------------------------------------------ *)

\* C12: play_random_video prints "No videos available" and changes nothing
\* exactly when no video of the library is unflagged; otherwise, whichever
\* video random.choice picks, it leaves a library video that is not flagged
\* loaded and not paused.
C12_PlayRandom ==
    \A cmd \in PlayRandomVideoCmds(Self) :
        LET r == play_random_video(Self, cmd.rand)
        IN  IF \A v \in VideoIds : video_library[v] # NoReason
            THEN Fails(r, "No videos available") /\ r.self = Self
            ELSE /\ r.out[1].text # "No videos available"
                 /\ \E v \in VideoIds :
                       /\ video_library[v] = NoReason
                       /\ Playback(r.self) = <<"Playing", v>>
                       /\ r.out[Len(r.out)] = Msg("Playing video", v, "")

\* Every video is flagged and play_random_video reports that none is available.
C12_Witness ==
    /\ \A v \in VideoIds : video_library[v] # NoReason
    /\ \A cmd \in PlayRandomVideoCmds(Self) :
          Fails(play_random_video(Self, cmd.rand), "No videos available")

\* Two videos are unflagged behind a flagged first one, a video is paused, and
\* each pick of random.choice plays an unflagged video.
C12_WitnessPlays ==
    /\ video_library[1] # NoReason
    /\ Cardinality(PlayRandomVideoCmds(Self)) = 2
    /\ is_video_paused /\ playing_video # None
    /\ \A cmd \in PlayRandomVideoCmds(Self) :
          Playback(play_random_video(Self, cmd.rand).self)[1] = "Playing"

(* ------------------------------------------------------------------ *)
(* C13                                                                *)
(* ------------------------------------------------------------------ *)

\* C13: a video flagged with the empty reason (flag_video's default) is
\* flagged like one flagged with a reason: flag_video(id, "") leaves a flag
\* reason that is not None, and for every flagged video, whatever its reason,
\* play_video and add_to_playlist (on a registered playlist) fail with
\* "currently flagged", no search lists it, play_random_video never draws it,
\* flag_video fails with "already flagged", and allow_video succeeds.
C13_EmptyReasonIsFlagged ==
    /\ \A v \in VideoIds :
          video_library[v] = NoReason =>
             /\ flag_video(Self, v, "").self.video_library[v] = <<"">>
             /\ flag_video(Self, v, "").self.video_library[v] # NoReason
    /\ \A v \in VideoIds :
          video_library[v] # NoReason =>
             /\ play_video(Self, v).out
                   = << Msg("Cannot play video: Video is currently flagged", None,
                            flag_msg(video_library[v])) >>
             /\ play_video(Self, v).self.playing_video = playing_video
             /\ \A n \in PlaylistNames :
                   upper(n) \in DOMAIN playlists =>
                      /\ add_to_playlist(Self, n, v).out
                            = << Msg("Cannot add video: Video is currently flagged", None,
                                     flag_msg(video_library[v])) >>
                      /\ add_to_playlist(Self, n, v).self = Self
             /\ \A t \in TitleTerms : ~InSeq(v, title_matches(Self, t))
             /\ \A t \in TagTerms : ~InSeq(v, tag_matches(Self, t))
             /\ ~InSeq(v, unflagged_videos(Self))
             /\ \A r \in Reasons :
                   Fails(flag_video(Self, v, r), "Cannot flag video: Video is already flagged")
             /\ allow_video(Self, v).out
                   = << Msg("Successfully removed flag from video", v, "") >>
             /\ allow_video(Self, v).self.video_library[v] = NoReason

\* A video whose title and tags match the search terms is flagged with the
\* empty reason, and playing it is refused with 'Not supplied'.
C13_Witness ==
    /\ video_library[1] = <<"">>
    /\ \E k \in DOMAIN playlists : ~InSeq(1, playlists[k].videos)
    /\ play_video(Self, 1).out
          = << Msg("Cannot play video: Video is currently flagged", None, "Not supplied") >>

(* ------------------------------------------------------------------ *)
(* C14, C15                                                           *)
(* ------------------------------------------------------------------ *)

\* Case-insensitive substring, letter by letter.
lower(c) == IF c \in 65..90 THEN c + 32 ELSE c

ContainsIgnoringCase(text, term) ==
    \E i \in 0..(Len(text) - Len(term)) :
        \A j \in 1..Len(term) : lower(text[i + j]) = lower(term[j])

\* The terms the searches are probed with: those of the commands and "MY",
\* "at", "B" and the empty term.
ProbeTerms == TitleTerms \cup TagTerms \cup { <<77, 89>>, <<97, 116>>, <<66>>, << >> }

\* The elements of a sequence.
Elems(s) == { s[i] : i \in DOMAIN s }

\* C14: for every term and every reachable flag assignment, search_videos
\* lists exactly the library videos that are unflagged and whose title
\* contains the term as a case-insensitive substring, each once and in library
\* order; with no match it prints "No search results" and does nothing else.
\* (The list is printed before input() is read: the answers taken here are
\* the ones that select nothing.)
C14_SearchByTitle ==
    \A term \in ProbeTerms :
        LET matched == title_matches(Self, term)
            wanted  == { v \in VideoIds : /\ video_library[v] = NoReason
                                          /\ ContainsIgnoringCase(title(v), term) }
        IN  /\ Elems(matched) = wanted
            /\ \A i, j \in DOMAIN matched : i < j => matched[i] < matched[j]
            /\ \A input \in { << >>, <<0>> } :
                  LET r == search_videos(Self, term, input)
                  IN  IF wanted = {}
                      THEN Fails(r, "No search results") /\ r.self = Self
                      ELSE /\ r.out[1] = Msg("Here are the results", None, "")
                           /\ \A i \in DOMAIN matched :
                                 r.out[1 + i] = Msg("result", matched[i], "")
                           /\ r.out[2 + Len(matched)].text
                                 = "Would you like to play any of the above?"

\* "Amy" is flagged, "Cat" is not: the search for "a" lists "Cat" alone, the
\* search for "MY" finds nothing.
C14_Witness ==
    /\ video_library[1] # NoReason
    /\ video_library[3] = NoReason
    /\ title_matches(Self, <<97>>) = <<3>>
    /\ Fails(search_videos(Self, <<77, 89>>, <<1>>), "No search results")

\* C15: search_videos_tag lists exactly the unflagged library videos one of
\* whose tags, taken alone, contains the query as a case-insensitive
\* substring; a query that matches only across the boundary of two tags lists
\* nothing.
C15_SearchByTagPerTag ==
    \A video_tag \in TagTerms :
        Elems(tag_matches(Self, video_tag))
            = { v \in VideoIds :
                  /\ video_library[v] = NoReason
                  /\ \E i \in DOMAIN tags(v) : ContainsIgnoringCase(tags(v)[i], video_tag) }

(* ------------------------------------------------------------------ *)
(* C16                                                                *)
(* ------------------------------------------------------------------ *)

\* Every playlist command on the name fails with "Playlist does not exist".
AllFailPlaylistNotFound(self, playlist_name) ==
    /\ \A v \in AllIds :
          /\ Fails(add_to_playlist(self, playlist_name, v),
                   "Cannot add video: Playlist does not exist")
          /\ Fails(remove_from_playlist(self, playlist_name, v),
                   "Cannot remove video: Playlist does not exist")
    /\ Fails(show_playlist(self, playlist_name),
             "Cannot show playlist: Playlist does not exist")
    /\ Fails(clear_playlist(self, playlist_name),
             "Cannot clear playlist: Playlist does not exist")
    /\ Fails(delete_playlist(self, playlist_name),
             "Cannot delete playlist: Playlist does not exist")

\* C16: in every reachable state and for every name, (a) on a registered
\* playlist clear_playlist empties the list and keeps the playlist
\* registered under its name: afterwards add_to_playlist of any unflagged
\* library video succeeds and create_playlist of the name fails with "already
\* exists"; (b) on a registered playlist delete_playlist unregisters it:
\* afterwards add, remove, show, clear and delete on the name all fail with
\* "Playlist does not exist", and create_playlist registers an empty playlist;
\* (c) on an unregistered name both fail with "Playlist does not exist" and
\* change nothing; (d) neither changes any other playlist or anything else
\* of the player; (e) no command other than create_playlist registers a name.
C16_ClearAndDelete ==
    /\ \A playlist_name \in PlaylistNames :
          LET k == upper(playlist_name)
              c == clear_playlist(Self, playlist_name)
              d == delete_playlist(Self, playlist_name)
          IN  IF k \in DOMAIN playlists
              THEN /\ c.out = << Msg("Successfully removed all videos", None, "") >>
                   /\ c.self = [Self EXCEPT !.playlists[k].videos = << >>]
                   /\ \A v \in VideoIds :
                         video_library[v] = NoReason
                            => /\ add_to_playlist(c.self, playlist_name, v).out
                                     = << Msg("Added video", v, "") >>
                               /\ add_to_playlist(c.self, playlist_name, v).self.playlists[k].videos
                                     = << v >>
                   /\ Fails(create_playlist(c.self, playlist_name),
                            "Cannot create playlist: A playlist with the same name already exists")
                   /\ d.out = << Msg("Deleted playlist", None, "") >>
                   /\ DOMAIN d.self.playlists = DOMAIN playlists \ {k}
                   /\ \A j \in DOMAIN d.self.playlists : d.self.playlists[j] = playlists[j]
                   /\ [d.self EXCEPT !.playlists = playlists] = Self
                   /\ \A other \in PlaylistNames :
                         upper(other) = k => AllFailPlaylistNotFound(d.self, other)
                   /\ \A other \in PlaylistNames :
                         upper(other) = k =>
                            LET r == create_playlist(d.self, other)
                            IN  /\ r.out = << Msg("Successfully created new playlist", None, "") >>
                                /\ DOMAIN r.self.playlists = DOMAIN playlists
                                /\ r.self.playlists[k].videos = << >>
                                /\ r.self.playlists[k].name = other
              ELSE /\ Fails(c, "Cannot clear playlist: Playlist does not exist")
                   /\ Fails(d, "Cannot delete playlist: Playlist does not exist")
                   /\ c.self = Self
                   /\ d.self = Self
    /\ \A cmd \in Commands(Self) :
          cmd.op # "create_playlist"
             => DOMAIN Run(Self, cmd).self.playlists \subseteq DOMAIN playlists

\* Two playlists are registered and both hold videos; clearing the first
\* leaves it registered and empty, deleting it unregisters it, and the second
\* keeps its videos either way.
C16_Witness ==
    \E k, j \in DOMAIN playlists :
        /\ k # j
        /\ Len(playlists[k].videos) >= 2
        /\ Len(playlists[j].videos) >= 1
        /\ clear_playlist(Self, playlists[k].name).self.playlists[k].videos = << >>
        /\ clear_playlist(Self, playlists[k].name).self.playlists[j] = playlists[j]
        /\ k \notin DOMAIN delete_playlist(Self, playlists[k].name).self.playlists
        /\ delete_playlist(Self, playlists[k].name).self.playlists[j] = playlists[j]

(* ------------------------------------------------------------------ *)
(* C17                                                                *)
(* ------------------------------------------------------------------ *)

\* C17: in every reachable state, flag_video and allow_video with any id and
\* reason, successful or not, leave every playlist as it was, names, videos
\* and order; and show_playlist of a registered playlist prints, after the
\* header, one line per video of the playlist, in the playlist's order,
\* flagged videos included, each with its current flag status (the reason,
\* "Not supplied" for an empty one, nothing for an unflagged video), also in
\* the state right after a flag_video or an allow_video.
C17_FlagKeepsPlaylists ==
    /\ \A video_id \in AllIds :
          /\ allow_video(Self, video_id).self.playlists = playlists
          /\ \A reason \in Reasons :
                flag_video(Self, video_id, reason).self.playlists = playlists
    /\ \A s \in {Self} \cup { allow_video(Self, v).self : v \in VideoIds }
                       \cup { flag_video(Self, v, "spoiler").self : v \in VideoIds } :
          \A playlist_name \in PlaylistNames :
              LET k == upper(playlist_name)
              IN  k \in DOMAIN s.playlists /\ s.playlists[k].videos # << >>
                  => LET videos == s.playlists[k].videos
                         out    == show_playlist(s, playlist_name).out
                     IN  /\ Len(out) = Len(videos) + 1
                         /\ out[1] = Msg("Showing playlist", None, "")
                         /\ \A i \in DOMAIN videos :
                               /\ out[i + 1].video = videos[i]
                               /\ out[i + 1].detail =
                                     IF s.video_library[videos[i]] = NoReason THEN ""
                                     ELSE IF s.video_library[videos[i]] = <<"">>
                                     THEN "Not supplied"
                                     ELSE s.video_library[videos[i]][1]

\* A playlist holds two videos, the first flagged after it was added (with a
\* reason) and the second not; show_playlist lists both in that order, the
\* first with its reason.
C17_Witness ==
    \E k \in DOMAIN playlists :
        /\ Len(playlists[k].videos) = 2
        /\ video_library[playlists[k].videos[1]] = <<"spoiler">>
        /\ video_library[playlists[k].videos[2]] = NoReason
        /\ show_playlist(Self, playlists[k].name).out
              = << Msg("Showing playlist", None, ""),
                   Msg("video", playlists[k].videos[1], "spoiler"),
                   Msg("video", playlists[k].videos[2], "") >>

(* ------------------------------------------------------------------ *)
(* C18                                                                *)
(* ------------------------------------------------------------------ *)

\* C18: in every reachable state, for every name and every id,
\* remove_from_playlist fails with "Playlist does not exist" if the name is
\* not registered; otherwise with "Video does not exist" if the id is not in
\* the library; otherwise with "Video is not in playlist" if the playlist
\* does not hold it; a failure changes nothing. Otherwise it succeeds,
\* whether the video is flagged or not: the id at position p of the list is
\* dropped, the ids before and after it keep their order, and nothing else
\* of the player changes.
C18_RemovePreconditionOrder ==
    \A playlist_name \in PlaylistNames, video_id \in AllIds :
        LET k == upper(playlist_name)
            r == remove_from_playlist(Self, playlist_name, video_id)
        IN  IF k \notin DOMAIN playlists
            THEN /\ Fails(r, "Cannot remove video: Playlist does not exist")
                 /\ r.self = Self
            ELSE IF video_id \notin VideoIds
            THEN /\ Fails(r, "Cannot remove video: Video does not exist")
                 /\ r.self = Self
            ELSE IF ~InSeq(video_id, playlists[k].videos)
            THEN /\ Fails(r, "Cannot remove video: Video is not in playlist")
                 /\ r.self = Self
            ELSE LET old == playlists[k].videos
                     p   == CHOOSE i \in DOMAIN old : old[i] = video_id
                 IN  /\ r.out = << Msg("Removed video", video_id, "") >>
                     /\ r.self.playlists[k].videos
                           = SubSeq(old, 1, p - 1) \o SubSeq(old, p + 1, Len(old))
                     /\ r.self = [Self EXCEPT !.playlists[k].videos
                                                  = r.self.playlists[k].videos]

\* A playlist holds the three videos, not in the library's order, the first
\* of them flagged since it was added; removing the first succeeds and leaves
\* the other two in their order.
C18_Witness ==
    \E k \in DOMAIN playlists :
        /\ Len(playlists[k].videos) = 3
        /\ playlists[k].videos[2] > playlists[k].videos[3]
        /\ video_library[playlists[k].videos[1]] # NoReason
        /\ remove_from_playlist(Self, playlists[k].name, playlists[k].videos[1]).out
              = << Msg("Removed video", playlists[k].videos[1], "") >>
        /\ remove_from_playlist(Self, playlists[k].name, playlists[k].videos[1])
              .self.playlists[k].videos
              = << playlists[k].videos[2], playlists[k].videos[3] >>

(* ------------------------------------------------------------------ *)
(* C19                                                                *)
(* ------------------------------------------------------------------ *)

\* C19: in every reachable state and for every id, allow_video fails with
\* "Video does not exist" for an id outside the library and with "Video is
\* not flagged" for an unflagged video, changing nothing; on a flagged video
\* it succeeds and changes the video's flag to none and nothing else, so
\* playback is what it was. In the state it leaves, play_video of the video
\* plays it, search_videos for its title lists it and add_to_playlist to a
\* registered playlist that does not hold it adds it, none of which had
\* happened by the allow itself. And when the playing video is flagged and
\* then allowed, playback is Stopped after both.
C19_AllowOnlyClearsFlag ==
    /\ \A video_id \in AllIds :
          LET a == allow_video(Self, video_id)
          IN  IF video_id \notin VideoIds
              THEN /\ Fails(a, "Cannot remove flag from video: Video does not exist")
                   /\ a.self = Self
              ELSE IF video_library[video_id] = NoReason
              THEN /\ Fails(a, "Cannot remove flag from video: Video is not flagged")
                   /\ a.self = Self
              ELSE /\ a.out = << Msg("Successfully removed flag from video", video_id, "") >>
                   /\ a.self = [Self EXCEPT !.video_library[video_id] = NoReason]
                   /\ Playback(a.self) = Playback(Self)
                   /\ Playback(play_video(a.self, video_id).self) = <<"Playing", video_id>>
                   /\ InSeq(video_id, title_matches(a.self, title(video_id)))
                   /\ ~InSeq(video_id, title_matches(Self, title(video_id)))
                   /\ \A playlist_name \in PlaylistNames :
                         LET k == upper(playlist_name)
                         IN  (k \in DOMAIN playlists /\ ~InSeq(video_id, playlists[k].videos))
                             => add_to_playlist(a.self, playlist_name, video_id)
                                   .self.playlists[k].videos
                                   = Append(playlists[k].videos, video_id)
    /\ \A reason \in Reasons :
          (playing_video # None /\ video_library[playing_video] = NoReason)
             => LET f == flag_video(Self, playing_video, reason)
                    a == allow_video(f.self, playing_video)
                IN  /\ Playback(f.self) = <<"Stopped", None>>
                    /\ a.out = << Msg("Successfully removed flag from video",
                                      playing_video, "") >>
                    /\ Playback(a.self) = <<"Stopped", None>>
                    /\ a.self.video_library = video_library

\* A video is flagged while another one is paused and a playlist that does
\* not hold the flagged one is registered; allow_video succeeds and the other
\* video is still paused.
C19_Witness ==
    \E v \in VideoIds, k \in DOMAIN playlists :
        /\ video_library[v] # NoReason
        /\ ~InSeq(v, playlists[k].videos)
        /\ playing_video # None
        /\ is_video_paused
        /\ allow_video(Self, v).out
              = << Msg("Successfully removed flag from video", v, "") >>
        /\ Playback(allow_video(Self, v).self) = <<"Paused", playing_video>>

\* The playing video is unflagged, so that flag_video stops it and the
\* allow_video after it leaves playback Stopped.
C19_WitnessStopped ==
    /\ playing_video # None
    /\ video_library[playing_video] = NoReason
    /\ Playback(allow_video(flag_video(Self, playing_video, "").self,
                            playing_video).self) = <<"Stopped", None>>

(* ------------------------------------------------------------------ *)
(* C20                                                                *)
(* ------------------------------------------------------------------ *)

\* The commands that work on playlists and the ones that work on playback.
PlaylistOps == {"create_playlist", "add_to_playlist", "remove_from_playlist",
                "clear_playlist", "delete_playlist"}

PlaybackOps == {"play_video", "play_random_video", "stop_video", "pause_video",
                "continue_video"}

\* C20: in every reachable state and for every call that can be made in it,
\* with every argument, failing calls included: create_playlist,
\* add_to_playlist, remove_from_playlist, clear_playlist and delete_playlist
\* leave the playing video, the paused flag and every video's flag as they
\* were; play_video, play_random_video, stop_video, pause_video and
\* continue_video leave every playlist and every video's flag as they were;
\* and a call after which some video's flag differs is a flag_video or an
\* allow_video that printed its success line.
C20_FrameConditions ==
    \A cmd \in Commands(Self) :
        LET r == Run(Self, cmd)
        IN  /\ cmd.op \in PlaylistOps
                  => /\ r.self.playing_video = playing_video
                     /\ r.self.is_video_paused = is_video_paused
                     /\ r.self.video_library = video_library
            /\ cmd.op \in PlaybackOps
                  => /\ r.self.playlists = playlists
                     /\ r.self.video_library = video_library
            /\ r.self.video_library # video_library
                  => \/ /\ cmd.op = "flag_video"
                        /\ r.out[Len(r.out)].text = "Successfully flagged video"
                     \/ /\ cmd.op = "allow_video"
                        /\ r.out = << Msg("Successfully removed flag from video",
                                          cmd.video_id, "") >>

\* A video is paused and a playlist holds it; clear_playlist and
\* delete_playlist of that playlist empty and unregister it and the video
\* stays paused.
C20_Witness ==
    \E k \in DOMAIN playlists :
        /\ playing_video # None
        /\ is_video_paused
        /\ InSeq(playing_video, playlists[k].videos)
        /\ k \notin DOMAIN delete_playlist(Self, playlists[k].name).self.playlists
        /\ Playback(delete_playlist(Self, playlists[k].name).self)
              = <<"Paused", playing_video>>
        /\ clear_playlist(Self, playlists[k].name).self.playlists[k].videos = << >>
        /\ Playback(clear_playlist(Self, playlists[k].name).self)
              = <<"Paused", playing_video>>

====
